---- MODULE Spec2Model ----
(***************************************************************************)
(* A model of the Oracle Sales Forecaster backend (src/main.py): the       *)
(* per-user CSV file store under ./uploads, the upload validator, the      *)
(* historical analysis, the forecast and export pipelines and the insight  *)
(* text selection.                                                          *)
(*                                                                         *)
(* Request handlers are modelled at the granularity of their file-system   *)
(* calls (os.path.exists, open, write/close, pd.read_csv, os.remove): the   *)
(* code takes no lock, so every other worker may run between two calls.     *)
(* Spec interleaves the workers freely, SeqSpec runs one request at a time. *)
(* The pure computations are operators; AnalysisSpec, PipeSpec and          *)
(* InsightSpec apply them to inputs drawn from bounded sets.                *)
(***************************************************************************)
EXTENDS Integers, Sequences, FiniteSets, TLC

VARIABLES
    files,      \* the uploads directory: entry name -> NoFile or the file
    pc,         \* per worker: the handler's position
    req,        \* per worker: the request being served
    df,         \* per worker: the DataFrame read by pd.read_csv
    resp,       \* per worker: the response of the finished request
    started,    \* number of requests accepted so far
    touched,    \* history: entry name -> users whose requests reached that file
    base,       \* history, per worker: the stored file its request found when accepted
    fin,        \* input of the pure-function specifications
    fout        \* result of the pure-function specifications

vars == <<files, pc, req, df, resp, started, touched, base, fin, fout>>
storeVars == <<files, pc, req, df, resp, started, touched, base>>

(***************************************************************************)
(* Bounds                                                                  *)
(***************************************************************************)
\* requests accepted in one behaviour
MaxRequests == 2

(***************************************************************************)
(* Sequences and characters                                                *)
(***************************************************************************)
Range(s) == {s[i] : i \in 1..Len(s)}

DigitChars == <<"0", "1", "2", "3", "4", "5", "6", "7", "8", "9">>

RECURSIVE IntToStr(_)
\* str(n) of a non-negative integer, as in the f-string f"user_{id}_..."
IntToStr(n) ==
    IF n < 10 THEN <<DigitChars[n + 1]>>
    ELSE IntToStr(n \div 10) \o <<DigitChars[(n % 10) + 1]>>

EndsWith(s, suffix) ==
    /\ Len(s) >= Len(suffix)
    /\ SubSeq(s, Len(s) - Len(suffix) + 1, Len(s)) = suffix

RECURSIVE SplitAt(_, _, _)
\* the components of s between occurrences of sep; cur is the open component
SplitAt(s, sep, cur) ==
    IF s = <<>> THEN <<cur>>
    ELSE IF Head(s) = sep THEN <<cur>> \o SplitAt(Tail(s), sep, <<>>)
    ELSE SplitAt(Tail(s), sep, Append(cur, Head(s)))

(***************************************************************************)
(* Users, filenames, paths                                                 *)
(***************************************************************************)
\* ids of registered users (integer primary keys)
Users == {1, 12}

CsvSuffix == <<".", "c", "s", "v">>

NameA     == <<"a">> \o CsvSuffix
Name2A    == <<"2", "a">> \o CsvSuffix
NameUp    == <<".", ".", "/", "u", "s", "e", "r", "_", "1", "2", "_", "a">> \o CsvSuffix
NameTxt   == <<"a", ".", "t", "x", "t">>

\* filenames a client may send: plain names, a name that is not a CSV, and a
\* name holding path separators
Filenames == {NameA, Name2A, NameUp, NameTxt}

UPLOAD_DIRECTORY == <<".", "/", "u", "p", "l", "o", "a", "d", "s">>

\* os.path.join(a, b) for a relative b
PathJoin(a, b) == a \o <<"/">> \o b

FilePathNoSep(user, filename) ==
    PathJoin(UPLOAD_DIRECTORY, <<"u", "s", "e", "r", "_">> \o IntToStr(user) \o filename)

\* os.path.join(UPLOAD_DIRECTORY, f"user_{current_user.id}_{filename}")
FilePath(user, filename) ==
    PathJoin(UPLOAD_DIRECTORY,
             <<"u", "s", "e", "r", "_">> \o IntToStr(user) \o <<"_">> \o filename)

NoEntry == <<>>

\* The directory entry a path names, as the operating system resolves it:
\* ./uploads is a flat directory that holds regular files only, so a path
\* with a further component below ./uploads names nothing (ENOENT/ENOTDIR).
Entry(path) ==
    LET parts == SplitAt(path, "/", <<>>)
    IN  IF Len(parts) = 3 /\ parts[1] = <<".">> /\ parts[2] = <<"u", "p", "l", "o", "a", "d", "s">>
           /\ parts[3] # <<>>
        THEN parts[3]
        ELSE NoEntry

Entries == {Entry(FilePath(u, f)) : u \in Users, f \in Filenames} \ {NoEntry}

(***************************************************************************)
(* CSV contents                                                            *)
(***************************************************************************)
required_columns == {"date", "product_id", "units_sold", "price"}

\* b"": a file just created or truncated by open(path, "wb"), or an empty upload
EmptyBytes == [empty |-> TRUE, cols |-> {}, rows |-> <<>>]

Row(d, p, u, pr) == [date |-> d, product_id |-> p, units_sold |-> u, price |-> pr]

Table(cols, rows) == [empty |-> FALSE, cols |-> cols, rows |-> rows]

ValidAB   == Table(required_columns, <<Row(1, "B", 3, 5), Row(1, "A", 2, 4), Row(2, "B", 1, 5)>>)
ValidB    == Table(required_columns \cup {"store"}, <<Row(1, "B", 0, 0)>>)
NoPrice   == Table(required_columns \ {"price"}, <<Row(1, "A", 2, 0)>>)
NegUnits  == Table(required_columns, <<Row(1, "A", 2, 4), Row(2, "A", -1, 4)>>)
NegPrice  == Table(required_columns, <<Row(1, "B", 2, -4)>>)

\* contents a client may upload
Contents == {ValidAB, ValidB, NoPrice, NegUnits, NegPrice}

\* product ids a client may ask a forecast for
ProductIdsAsked == {"A"}

(***************************************************************************)
(* pandas helpers                                                          *)
(***************************************************************************)
RECURSIVE SumSeq(_)
SumSeq(s) == IF s = <<>> THEN 0 ELSE Head(s) + SumSeq(Tail(s))

RECURSIVE SortedSeq(_)
\* the elements of a finite set of integers, ascending
SortedSeq(S) ==
    IF S = {} THEN <<>>
    ELSE LET m == CHOOSE x \in S : \A y \in S : x <= y
         IN  <<m>> \o SortedSeq(S \ {m})

\* Series.tail(n)
TailN(s, n) == IF Len(s) <= n THEN s ELSE SubSeq(s, Len(s) - n + 1, Len(s))

\* One column of a table, in row order
Column(rows, name) == [i \in 1..Len(rows) |-> rows[i][name]]

RECURSIVE UniqueSeq(_, _)
\* Series.unique(): the distinct values, in order of first appearance
UniqueSeq(s, seen) ==
    IF s = <<>> THEN <<>>
    ELSE IF Head(s) \in seen THEN UniqueSeq(Tail(s), seen)
    ELSE <<Head(s)>> \o UniqueSeq(Tail(s), seen \cup {Head(s)})

\* A pandas Timestamp: a calendar day and the time within it
Timestamp(day, tod) == [day |-> day, tod |-> tod]

\* pd.to_datetime of a calendar date
to_datetime(d) == Timestamp(d, 0)

\* Timestamp.strftime('%Y-%m-%d'): the calendar day, the time of day dropped
strftime(ts) == ts.day

(***************************************************************************)
(* upload_csv: validation (src/main.py 219-229)                            *)
(***************************************************************************)
\* pd.read_csv: the exception it raises on the bytes, or "none"
ReadError(data) == IF data.empty THEN "EmptyDataError" ELSE "none"

\* df['units_sold'].lt(0).any() or df['price'].lt(0).any()
AnyNegative(rows) ==
    \/ \E i \in 1..Len(rows) : rows[i].units_sold < 0
    \/ \E i \in 1..Len(rows) : rows[i].price < 0

\* The exception raised inside the try block on the bytes read back, or "none"
ValidationError(data) ==
    IF ReadError(data) # "none" THEN ReadError(data)
    ELSE IF ~(required_columns \subseteq data.cols) THEN "ValueError: Missing required columns"
    ELSE IF AnyNegative(data.rows) THEN "ValueError: negative values"
    ELSE "none"

\* df['product_id'].unique().tolist()
Products(data) == UniqueSeq(Column(data.rows, "product_id"), {})

(***************************************************************************)
(* get_historical_analysis (src/main.py 240-255)                           *)
(***************************************************************************)
\* product ids in the order pandas sorts group keys (string collation)
ProductOrder == <<"A", "B", "C", "D", "E", "F", "G">>

Rank(p) == CHOOSE i \in 1..Len(ProductOrder) : ProductOrder[i] = p

TOP_N == 5

\* df['revenue'] = df['units_sold'] * df['price'], summed over the rows of one date
RevenueOn(rows, d) ==
    SumSeq([i \in 1..Len(rows) |->
                IF rows[i].date = d THEN rows[i].units_sold * rows[i].price ELSE 0])

\* df.groupby('date')['revenue'].sum().reset_index(), the date then formatted:
\* one record per group key, the keys sorted ascending
RevenueOverTime(rows) ==
    LET keys == SortedSeq({rows[i].date : i \in 1..Len(rows)})
    IN  [k \in 1..Len(keys) |->
            [date |-> strftime(to_datetime(keys[k])), revenue |-> RevenueOn(rows, keys[k])]]

UnitsOf(rows, p) ==
    SumSeq([i \in 1..Len(rows) |-> IF rows[i].product_id = p THEN rows[i].units_sold ELSE 0])

GroupedUnitsEncounter(rows) ==
    LET keys == UniqueSeq(Column(rows, "product_id"), {})
    IN  [k \in 1..Len(keys) |-> [product_id |-> keys[k], units_sold |-> UnitsOf(rows, keys[k])]]

\* df.groupby('product_id')['units_sold'].sum(): one entry per product, the
\* group keys sorted ascending (groupby's default sort=True)
GroupedUnits(rows) ==
    LET keys == SortedSeq({Rank(rows[i].product_id) : i \in 1..Len(rows)})
    IN  [k \in 1..Len(keys) |->
            [product_id |-> ProductOrder[keys[k]],
             units_sold |-> UnitsOf(rows, ProductOrder[keys[k]])]]

RemoveAt(s, i) == SubSeq(s, 1, i - 1) \o SubSeq(s, i + 1, Len(s))

RECURSIVE NLargest(_, _)
\* Series.nlargest(n) (keep='first'): the n largest, descending, equal values in
\* the order of the series
NLargest(s, n) ==
    IF n = 0 \/ s = <<>> THEN <<>>
    ELSE LET i == CHOOSE i \in 1..Len(s) :
                      /\ \A j \in 1..Len(s) : s[j].units_sold <= s[i].units_sold
                      /\ \A j \in 1..(i - 1) : s[j].units_sold < s[i].units_sold
         IN  <<s[i]>> \o NLargest(RemoveAt(s, i), n - 1)

TopProducts(rows) == NLargest(GroupedUnits(rows), TOP_N)

\* the JSON body of /analysis/
Analysis(data) ==
    [revenue_over_time |-> RevenueOverTime(data.rows),
     top_products      |-> TopProducts(data.rows)]

(***************************************************************************)
(* generate_insight (src/main.py 53-79)                                    *)
(***************************************************************************)
NaN == [nan |-> TRUE, num |-> 0, den |-> 1]

Frac(n, d) == [nan |-> FALSE, num |-> n, den |-> d]

\* Series.mean(): an exact fraction, NaN for no values
Mean(s) == IF s = <<>> THEN NaN ELSE Frac(SumSeq(s), Len(s))

Inf == [kind |-> "inf"]
NaNPct == [kind |-> "nan"]
Pct(n, d) == IF d < 0 THEN [kind |-> "num", num |-> -n, den |-> -d]
             ELSE [kind |-> "num", num |-> n, den |-> d]

\* lines 58-61, for averages h and f
ChangePercent(h, f) ==
    IF h.nan \/ h.num = 0
    THEN IF ~f.nan /\ f.num > 0 THEN Inf ELSE Pct(0, 1)
    ELSE IF f.nan THEN NaNPct
    ELSE Pct((f.num * h.den - h.num * f.den) * 100, f.den * h.num)

GtLax(c, k) == c.kind = "inf" \/ (c.kind = "num" /\ c.num >= k * c.den)

\* change_percent > k
Gt(c, k) == c.kind = "inf" \/ (c.kind = "num" /\ c.num > k * c.den)

\* change_percent < k
Lt(c, k) == c.kind = "num" /\ c.num < k * c.den

\* lines 63-77: the branch that writes trend_summary and recommendation
Branch(c) ==
    IF Gt(c, 15) THEN "strong upward"
    ELSE IF Gt(c, 5) THEN "modest upward"
    ELSE IF Lt(c, -15) THEN "significant downward"
    ELSE IF Lt(c, -5) THEN "modest downward"
    ELSE "stable"

INSIGHT_WINDOW == 7

\* generate_insight(product_id, historical_df, forecast_df)
generate_insight(historical_df, forecast_df) ==
    LET last_historical_avg == Mean(TailN(Column(historical_df, "y"), INSIGHT_WINDOW))
        last_forecast_avg   == Mean(TailN(Column(forecast_df, "yhat"), INSIGHT_WINDOW))
    IN  Branch(ChangePercent(last_historical_avg, last_forecast_avg))

(***************************************************************************)
(* The forecasting library (Prophet), as called at src/main.py 150-153 and *)
(* 271-274: fit on the history, one output row per distinct historical     *)
(* date and per day of the horizon.                                        *)
(***************************************************************************)
\* Prophet.make_future_dataframe(periods): the history's distinct dates,
\* ascending, followed by `periods` daily dates after the last of them
make_future_dataframe(prophet_df, periods) ==
    LET hist == SortedSeq({prophet_df[i].ds.day : i \in 1..Len(prophet_df)})
        last == hist[Len(hist)]
    IN  [i \in 1..(Len(hist) + periods) |->
            IF i <= Len(hist) THEN Timestamp(hist[i], 0)
            ELSE Timestamp(last + (i - Len(hist)), 0)]

\* The fitted model's point estimate for a date: a deterministic function of
\* the history (as a set of observations) and the date
Yhat(prophet_df, ts) ==
    (SumSeq(Column(prophet_df, "y")) + 3 * ts.day) % 11

\* Prophet.fit(prophet_df).predict(future)
predict(prophet_df, future) ==
    [i \in 1..Len(future) |->
        [ds         |-> future[i],
         yhat       |-> Yhat(prophet_df, future[i]),
         yhat_lower |-> Yhat(prophet_df, future[i]) - 2,
         yhat_upper |-> Yhat(prophet_df, future[i]) + 2]]

(***************************************************************************)
(* get_forecast (src/main.py 263-285) and export_forecast_csv (141-175),   *)
(* from the DataFrame on                                                   *)
(***************************************************************************)
FORECAST_MIN_ROWS == 30
FORECAST_PERIODS  == 30
FORECAST_TAIL     == 30
EXPORT_MIN_ROWS   == 30
EXPORT_PERIODS    == 30

HTTPException(code, detail) == [code |-> code, detail |-> detail, body |-> <<>>]

\* an exception no handler catches: the framework answers 500
Unhandled(exc) == [code |-> 500, detail |-> exc, body |-> <<>>]

Ok(body) == [code |-> 200, detail |-> "ok", body |-> body]

\* product_id texts that pd.read_csv parses as integers
IntegerTexts == {"7"}

\* pd.read_csv infers int64 for a column whose every value is an integer text
IntColumn(rows) ==
    rows # <<>> /\ \A i \in 1..Len(rows) : rows[i].product_id \in IntegerTexts

\* df[df['product_id'] == product_id]: the matching rows, in file order; the
\* product_id asked is a str, which no value of an int64 column equals
ProductHistory(rows, product_id) ==
    IF IntColumn(rows) THEN <<>>
    ELSE SelectSeq(rows, LAMBDA r : r.product_id = product_id)

\* product_history[['date', 'units_sold']] renamed to ds, y, ds converted with
\* pd.to_datetime: the rows stay in file order
ProphetDf(product_history) ==
    [i \in 1..Len(product_history) |->
        [ds |-> to_datetime(product_history[i].date), y |-> product_history[i].units_sold]]

NotInvoked == <<[ds |-> Timestamp(0, 0), y |-> -1]>>

\* get_forecast lines 264-269: the error raised before the model is fitted, or Ok
ForecastGate(data, product_id) ==
    LET product_history == ProductHistory(data.rows, product_id)
    IN  IF "product_id" \notin data.cols THEN Unhandled("KeyError")
        ELSE IF product_history = <<>> THEN HTTPException(404, "Product ID not found")
        ELSE IF Len(product_history) < FORECAST_MIN_ROWS
             THEN HTTPException(400, "Not enough data")
        ELSE IF ~({"date", "units_sold"} \subseteq data.cols) THEN Unhandled("KeyError")
        ELSE Ok(<<>>)

\* export_forecast_csv lines 142-148: the error raised before the model is fitted, or Ok
ExportGate(data, product_id) ==
    LET product_history == ProductHistory(data.rows, product_id)
    IN  IF "product_id" \notin data.cols THEN Unhandled("KeyError")
        ELSE IF product_history = <<>> THEN HTTPException(404, "Product ID not found")
        ELSE IF Len(product_history) < EXPORT_MIN_ROWS
             THEN HTTPException(400, "Not enough data")
        ELSE IF ~({"date", "units_sold"} \subseteq data.cols) THEN Unhandled("KeyError")
        ELSE Ok(<<>>)

\* the frame get_forecast passes to model.fit (line 272), when it gets there
ForecastFitInput(data, product_id) ==
    IF ForecastGate(data, product_id).code = 200
    THEN ProphetDf(ProductHistory(data.rows, product_id))
    ELSE NotInvoked

\* the frame export_forecast_csv passes to model.fit (line 151), when it gets there
ExportFitInput(data, product_id) ==
    IF ExportGate(data, product_id).code = 200
    THEN ProphetDf(ProductHistory(data.rows, product_id))
    ELSE NotInvoked

\* get_forecast lines 264-285 on the DataFrame read
get_forecast(data, product_id) ==
    IF ForecastGate(data, product_id).code # 200 THEN ForecastGate(data, product_id)
    ELSE LET prophet_df == ForecastFitInput(data, product_id)
             future     == make_future_dataframe(prophet_df, FORECAST_PERIODS)
             forecast   == predict(prophet_df, future)
         IN  Ok([product_id      |-> product_id,
                 insight         |-> generate_insight(prophet_df, forecast),
                 historical_data |-> prophet_df,
                 forecast_data   |-> TailN(forecast, FORECAST_TAIL)])

ExportRowsTail(forecast) ==
    LET t == TailN(forecast, EXPORT_PERIODS)
    IN  [i \in 1..Len(t) |->
            [date |-> strftime(t[i].ds),
             predicted_sales |-> t[i].yhat,
             predicted_sales_lower_bound |-> t[i].yhat_lower,
             predicted_sales_upper_bound |-> t[i].yhat_upper]]

\* lines 157-167: the rows written to the CSV stream, one per forecast row
ExportRows(forecast) ==
    [i \in 1..Len(forecast) |->
        [date |-> strftime(forecast[i].ds),
         predicted_sales |-> forecast[i].yhat,
         predicted_sales_lower_bound |-> forecast[i].yhat_lower,
         predicted_sales_upper_bound |-> forecast[i].yhat_upper]]

\* export_forecast_csv lines 142-175 on the DataFrame read
export_forecast_csv(data, product_id) ==
    IF ExportGate(data, product_id).code # 200 THEN ExportGate(data, product_id)
    ELSE LET prophet_df == ExportFitInput(data, product_id)
             future     == make_future_dataframe(prophet_df, EXPORT_PERIODS)
             forecast   == predict(prophet_df, future)
         IN  Ok(ExportRows(forecast))

\* get_historical_analysis lines 243-255 on the DataFrame read
get_historical_analysis(data) ==
    IF ~(required_columns \subseteq data.cols) THEN Unhandled("KeyError")
    ELSE Ok(Analysis(data))

\* what a reading endpoint answers once pd.read_csv has returned the DataFrame
Compute(op, data, product_id) ==
    CASE op = "analysis" -> get_historical_analysis(data)
      [] op = "forecast" -> get_forecast(data, product_id)
      [] op = "export"   -> export_forecast_csv(data, product_id)

(***************************************************************************)
(* The file store and the request handlers                                 *)
(***************************************************************************)
\* request workers: the handlers run on independent workers, no lock is taken
Procs == {"w1", "w2"}

\* a directory entry: holders are the workers whose open file object still
\* refers to this file (a file removed and created again is another file)
NoFile == [exists |-> FALSE, data |-> EmptyBytes, holders |-> {}]
File(data, holders) == [exists |-> TRUE, data |-> data, holders |-> holders]

NoReq  == [op |-> "none", user |-> 0, filename |-> <<>>, content |-> EmptyBytes,
           product_id |-> ""]
NoResp == [code |-> 0, detail |-> "", body |-> <<>>]

Readers == {"analysis", "forecast", "export"}

\* the requests a client may send
Requests ==
    [op : {"upload"}, user : Users, filename : Filenames, content : Contents,
     product_id : {""}]
    \cup [op : {"analysis"}, user : Users, filename : Filenames, content : {EmptyBytes},
          product_id : {""}]
    \cup [op : {"forecast", "export"}, user : Users, filename : Filenames,
          content : {EmptyBytes}, product_id : ProductIdsAsked]

\* file_path resolved, for every user and filename
EntryTable == [u \in Users, f \in Filenames |-> Entry(FilePath(u, f))]

\* the entry the request's file_path names (NoEntry: it names nothing)
EntryOf(r) == EntryTable[r.user, r.filename]

\* os.path.exists(file_path)
Exists(r) == EntryOf(r) # NoEntry /\ files[EntryOf(r)].exists

Touch(r) == [touched EXCEPT ![EntryOf(r)] = @ \cup {r.user}]

\* a client whose earlier upload may already be stored when the behaviour starts
FirstUser == CHOOSE u \in Users : \A v \in Users : u <= v

\* the uploads directory is empty, or holds one dataset uploaded before
StoredBefore ==
    {[e \in Entries |-> NoFile],
     [e \in Entries |-> IF e = EntryTable[FirstUser, NameA] THEN File(ValidB, {}) ELSE NoFile]}

\* what a reading endpoint answers from pd.read_csv(file_path) on: an
\* exception of pd.read_csv is caught nowhere
ReadAnswer(op, file, product_id) ==
    IF ~file.exists THEN Unhandled("FileNotFoundError")
    ELSE IF ReadError(file.data) # "none" THEN Unhandled(ReadError(file.data))
    ELSE Compute(op, file.data, product_id)

FileNotFound == HTTPException(404, "File not found")

\* a reading endpoint served while no other request runs: os.path.exists and
\* pd.read_csv find the same file
ServeAlone(op, file, product_id) ==
    IF ~file.exists THEN FileNotFound ELSE ReadAnswer(op, file, product_id)

StoreInit ==
    /\ files \in StoredBefore
    /\ pc      = [p \in Procs |-> "idle"]
    /\ req     = [p \in Procs |-> NoReq]
    /\ df      = [p \in Procs |-> EmptyBytes]
    /\ resp    = [p \in Procs |-> NoResp]
    /\ started = 0
    /\ touched = [e \in Entries |-> IF files[e].exists THEN {FirstUser} ELSE {}]
    /\ base    = [p \in Procs |-> NoFile]

NoInput  == [kind |-> "none"]
NoOutput == [kind |-> "none"]

FnIdle == fin = NoInput /\ fout = NoOutput

\* the framework hands an authenticated request to a worker that serves none
\* (the worker's last response stays visible until then)
Accept(p) ==
    /\ pc[p] \in {"idle", "done"}
    /\ started < MaxRequests
    /\ \E r \in Requests :
        /\ req' = [req EXCEPT ![p] = r]
        /\ pc' = [pc EXCEPT ![p] = IF r.op = "upload" THEN "open" ELSE "exists"]
        /\ base' = [base EXCEPT ![p] = IF EntryOf(r) = NoEntry THEN NoFile
                                       ELSE files[EntryOf(r)]]
    /\ df' = [df EXCEPT ![p] = EmptyBytes]
    /\ resp' = [resp EXCEPT ![p] = NoResp]
    /\ started' = started + 1
    /\ UNCHANGED <<files, touched, fin, fout>>

Finish(p, r) ==
    /\ resp' = [resp EXCEPT ![p] = r]
    /\ pc' = [pc EXCEPT ![p] = "done"]

\* upload_csv lines 214-217: the suffix check, then open(file_path, "wb"),
\* which creates the file or truncates the one that is there
upload_open(p) ==
    /\ pc[p] = "open"
    /\ IF ~EndsWith(req[p].filename, CsvSuffix)
       THEN /\ Finish(p, HTTPException(400, "Invalid file type"))
            /\ UNCHANGED <<files, touched>>
       ELSE IF EntryOf(req[p]) = NoEntry
       THEN /\ Finish(p, Unhandled("FileNotFoundError"))
            /\ UNCHANGED <<files, touched>>
       ELSE /\ files' = [files EXCEPT ![EntryOf(req[p])] =
                            File(EmptyBytes, @.holders \cup {p})]
            /\ touched' = Touch(req[p])
            /\ pc' = [pc EXCEPT ![p] = "write"]
            /\ UNCHANGED resp
    /\ UNCHANGED <<req, df, started, base, fin, fout>>

\* line 218 and the end of the with block: the uploaded bytes reach the file
\* the worker opened (not the directory entry, should that file be gone)
upload_write(p) ==
    /\ pc[p] = "write"
    /\ LET e == EntryOf(req[p])
       IN  files' = [files EXCEPT ![e] =
                        IF @.exists /\ p \in @.holders
                        THEN File(req[p].content, @.holders \ {p})
                        ELSE @]
    /\ pc' = [pc EXCEPT ![p] = "validate"]
    /\ UNCHANGED <<req, df, resp, started, touched, base, fin, fout>>

\* lines 219-225 and 229: pd.read_csv(file_path) and the two checks; any
\* exception leads to the except block
upload_validate(p) ==
    /\ pc[p] = "validate"
    /\ LET e == EntryOf(req[p])
       IN  IF ~files[e].exists \/ ValidationError(files[e].data) # "none"
           THEN /\ pc' = [pc EXCEPT ![p] = "remove"]
                /\ UNCHANGED <<df, resp>>
           ELSE /\ df' = [df EXCEPT ![p] = files[e].data]
                /\ Finish(p, Ok(Products(files[e].data)))
    /\ UNCHANGED <<files, req, started, touched, base, fin, fout>>

\* lines 226-228: os.remove(file_path), then the 400 response; os.remove of a
\* missing file raises inside the handler
upload_remove(p) ==
    /\ pc[p] = "remove"
    /\ LET e == EntryOf(req[p])
       IN  IF files[e].exists
           THEN /\ files' = [files EXCEPT ![e] = NoFile]
                /\ Finish(p, HTTPException(400, "CSV Validation Error"))
           ELSE /\ Finish(p, Unhandled("FileNotFoundError"))
                /\ UNCHANGED files
    /\ UNCHANGED <<req, df, started, touched, base, fin, fout>>

\* lines 136-138, 236-238, 260-262: os.path.exists(file_path)
reader_exists(p) ==
    /\ pc[p] = "exists"
    /\ IF Exists(req[p])
       THEN /\ pc' = [pc EXCEPT ![p] = "read"]
            /\ touched' = Touch(req[p])
            /\ UNCHANGED resp
       ELSE /\ Finish(p, FileNotFound)
            /\ UNCHANGED touched
    /\ UNCHANGED <<files, req, df, started, base, fin, fout>>

\* lines 141, 240, 263: pd.read_csv(file_path), and the computation on the
\* DataFrame
reader_read(p) ==
    /\ pc[p] = "read"
    /\ LET file == files[EntryOf(req[p])]
       IN  /\ df' = [df EXCEPT ![p] = IF file.exists THEN file.data ELSE EmptyBytes]
           /\ Finish(p, ReadAnswer(req[p].op, file, req[p].product_id))
    /\ UNCHANGED <<files, req, started, touched, base, fin, fout>>

\* a request is accepted only while no other is being served
AcceptAlone(p) ==
    /\ \A q \in Procs : pc[q] \in {"idle", "done"}
    /\ Accept(p)

Init == StoreInit /\ FnIdle

Next ==
    \E p \in Procs :
        \/ Accept(p)
        \/ upload_open(p)
        \/ upload_write(p)
        \/ upload_validate(p)
        \/ upload_remove(p)
        \/ reader_exists(p)
        \/ reader_read(p)

\* every interleaving of the workers' file-system calls
Spec == Init /\ [][Next]_vars

SeqNext ==
    \E p \in Procs :
        \/ AcceptAlone(p)
        \/ upload_open(p)
        \/ upload_write(p)
        \/ upload_validate(p)
        \/ upload_remove(p)
        \/ reader_exists(p)
        \/ reader_read(p)

\* one request at a time, each served to its response before the next
SeqSpec == Init /\ [][SeqNext]_vars

(***************************************************************************)
(* Properties of upload and the file store                                 *)
(***************************************************************************)
\* worker p sends its response in this step
Completes(p) == pc[p] # "done" /\ pc'[p] = "done"

\* os.path.exists(file_path) for request r in directory dir
FileAt(dir, r) == EntryOf(r) # NoEntry /\ dir[EntryOf(r)].exists

LacksColumn(c) == \E col \in {"date", "product_id", "units_sold", "price"} : col \notin c.cols

HasNegative(c) ==
    \E i \in 1..Len(c.rows) : c.rows[i].units_sold < 0 \/ c.rows[i].price < 0

\* every record has units_sold >= 0 and price >= 0, and the four columns are there
WellFormed(c) ==
    /\ {"date", "product_id", "units_sold", "price"} \subseteq c.cols
    /\ \A i \in 1..Len(c.rows) : c.rows[i].units_sold >= 0 /\ c.rows[i].price >= 0

IsCsvUpload(r) == r.op = "upload" /\ EndsWith(r.filename, CsvSuffix)

\* C1: an upload of a '.csv' file whose content lacks a required column or holds
\* a negative units_sold or price is answered 400 (validation error), and when
\* it completes no file exists under its key, whatever was stored there before.
C1_InvalidUploadRejected ==
    [][\A p \in Procs :
        (Completes(p) /\ IsCsvUpload(req[p])
            /\ (LacksColumn(req[p].content) \/ HasNegative(req[p].content)))
        => (/\ resp'[p].code = 400
            /\ resp'[p].detail = "CSV Validation Error"
            /\ ~FileAt(files', req[p]))]_vars

\* C1, for filenames that name an entry of the uploads directory
C1_InvalidUploadRejectedWhenResolved ==
    [][\A p \in Procs :
        (Completes(p) /\ IsCsvUpload(req[p]) /\ EntryOf(req[p]) # NoEntry
            /\ (LacksColumn(req[p].content) \/ HasNegative(req[p].content)))
        => (/\ resp'[p].code = 400
            /\ resp'[p].detail = "CSV Validation Error"
            /\ ~FileAt(files', req[p]))]_vars

\* C1, in every case: no file is left under the key
C1_NothingLeftOnStorage ==
    [][\A p \in Procs :
        (Completes(p) /\ IsCsvUpload(req[p])
            /\ (LacksColumn(req[p].content) \/ HasNegative(req[p].content)))
        => ~FileAt(files', req[p])]_vars

C1_ReplacedFileGone ==
    \E p \in Procs :
        /\ pc[p] = "done" /\ IsCsvUpload(req[p]) /\ HasNegative(req[p].content)
        /\ base[p].exists /\ resp[p].code = 400 /\ ~FileAt(files, req[p])

DistinctIds(c) == {c.rows[i].product_id : i \in 1..Len(c.rows)}

\* C2: an upload of a '.csv' file with the four columns and no negative value
\* succeeds, returns exactly the distinct product_id values of the content, and
\* the file under its key then holds exactly the uploaded content.
C2_ValidUploadStored ==
    [][\A p \in Procs :
        (Completes(p) /\ IsCsvUpload(req[p]) /\ WellFormed(req[p].content))
        => (/\ resp'[p].code = 200
            /\ Range(resp'[p].body) = DistinctIds(req[p].content)
            /\ Len(resp'[p].body) = Cardinality(DistinctIds(req[p].content))
            /\ FileAt(files', req[p])
            /\ files'[EntryOf(req[p])].data = req[p].content)]_vars

\* C2, for filenames that name an entry of the uploads directory
C2_ValidUploadStoredWhenResolved ==
    [][\A p \in Procs :
        (Completes(p) /\ IsCsvUpload(req[p]) /\ EntryOf(req[p]) # NoEntry
            /\ WellFormed(req[p].content))
        => (/\ resp'[p].code = 200
            /\ Range(resp'[p].body) = DistinctIds(req[p].content)
            /\ Len(resp'[p].body) = Cardinality(DistinctIds(req[p].content))
            /\ FileAt(files', req[p])
            /\ files'[EntryOf(req[p])].data = req[p].content)]_vars

C2_Overwritten ==
    \E p \in Procs :
        /\ pc[p] = "done" /\ IsCsvUpload(req[p]) /\ req[p].content = ValidAB
        /\ base[p].exists /\ base[p].data = ValidB
        /\ resp[p].code = 200 /\ files[EntryOf(req[p])].data = ValidAB

\* C3: under every interleaving of requests, every file present in the uploads
\* directory holds a dataset with the four columns and no negative units_sold or
\* price (a file just created and still empty aside), and no analysis, forecast
\* or export request reads a dataset that violates this.
C3_StoredDatasetsWellFormed ==
    /\ \A e \in Entries :
        (files[e].exists /\ ~files[e].data.empty) => WellFormed(files[e].data)
    /\ \A p \in Procs :
        (pc[p] = "done" /\ req[p].op \in Readers /\ resp[p].code = 200)
        => WellFormed(df[p])

\* C3, its last part alone: a reading request has answered from a dataset that
\* holds a negative value or lacks a column
C3_ReaderSawInvalid ==
    \E p \in Procs :
        /\ pc[p] = "done" /\ req[p].op \in Readers
        /\ ~df[p].empty /\ ~WellFormed(df[p])

\* the contents other workers' uploads bring to the key of worker p's request
NewContents(p) ==
    {req[q].content : q \in {q \in Procs : q # p /\ req[q].op = "upload"
                                             /\ EntryOf(req[q]) = EntryOf(req[p])}}

\* worker p's request found a complete, validated dataset under its key
HeldDataset(p) ==
    /\ base[p].exists /\ base[p].holders = {}
    /\ ValidationError(base[p].data) = "none"

\* C4: when a key holds a dataset and a re-upload to it runs concurrently with
\* readers or uploads of the same key, every reader answers from the complete
\* old or the complete new content (never file-not-found, never an unhandled
\* failure), and every upload ends in its success response or its 400 response.
C4_ReadersSeeOldOrNew ==
    [][\A p \in Procs :
        (Completes(p) /\ HeldDataset(p))
        => IF req[p].op \in Readers
           THEN /\ resp'[p].code # 500
                /\ resp'[p] # FileNotFound
                /\ \E c \in {base[p].data} \cup NewContents(p) :
                       resp'[p] = Compute(req[p].op, c, req[p].product_id)
           ELSE resp'[p].code \in {200, 400}]_vars

\* the file paths of distinct users differ, whatever the filenames
PathsInjective ==
    \A u1, u2 \in Users : \A f1, f2 \in Filenames :
        u1 # u2 => /\ FilePath(u1, f1) # FilePath(u2, f2)
                   /\ (EntryTable[u1, f1] = NoEntry \/ EntryTable[u1, f1] # EntryTable[u2, f2])

\* C10: the paths of two distinct users never coincide, so no request of one
\* user creates, overwrites, deletes or reads a file that another user's
\* request created: every directory entry is reached by one user only.
C10_UsersIsolated ==
    /\ PathsInjective
    /\ \A e \in Entries : Cardinality(touched[e]) <= 1

\* two users have stored files whose names differ only in where the id ends
C10_NeighbouringNamesStored ==
    \E p, q \in Procs :
        /\ pc[p] = "done" /\ pc[q] = "done"
        /\ req[p].op = "upload" /\ req[q].op = "upload"
        /\ req[p].user = 1 /\ req[p].filename = Name2A
        /\ req[q].user = 12 /\ req[q].filename = NameA
        /\ FileAt(files, req[p]) /\ FileAt(files, req[q])

(***************************************************************************)
(* generate_insight applied to pairs of averages                           *)
(***************************************************************************)
\* largest sum of the seven values an average is taken over
MaxSum == 46
\* smallest such sum is -MaxNeg
MaxNeg == 4

Averages == {Frac(n, INSIGHT_WINDOW) : n \in (-MaxNeg)..MaxSum}

InsightInputs == [hist : Averages \cup {NaN}, fcst : Averages]

\* no request is served while a computation is applied on its own
StoreIdle ==
    /\ files   = [e \in Entries |-> NoFile]
    /\ pc      = [p \in Procs |-> "idle"]
    /\ req     = [p \in Procs |-> NoReq]
    /\ df      = [p \in Procs |-> EmptyBytes]
    /\ resp    = [p \in Procs |-> NoResp]
    /\ started = 0
    /\ touched = [e \in Entries |-> {}]
    /\ base    = [p \in Procs |-> NoFile]

InsightInit ==
    /\ StoreIdle
    /\ fin \in InsightInputs
    /\ fout = [branch |-> "not run"]

\* lines 58-77 on the two averages
RunInsight ==
    /\ fout.branch = "not run"
    /\ fout' = [branch |-> Branch(ChangePercent(fin.hist, fin.fcst))]
    /\ UNCHANGED <<storeVars, fin>>

InsightSpec == InsightInit /\ [][RunInsight]_vars

\* the branch the thresholds name for averages h and f (h a number, not zero):
\* change = (f - h) / h * 100 compared with k, cleared of the division
ChangeAbove(h, f, k) ==
    IF h.num > 0 THEN (f.num - h.num) * 100 > k * h.num
    ELSE (f.num - h.num) * 100 < k * h.num

ChangeBelow(h, f, k) ==
    IF h.num > 0 THEN (f.num - h.num) * 100 < k * h.num
    ELSE (f.num - h.num) * 100 > k * h.num

ExpectedBranch(h, f) ==
    IF h.nan \/ h.num = 0
    THEN IF f.num > 0 THEN "strong upward" ELSE "stable"
    ELSE CASE ChangeAbove(h, f, 15) -> "strong upward"
           [] ~ChangeAbove(h, f, 15) /\ ChangeAbove(h, f, 5) -> "modest upward"
           [] ~ChangeAbove(h, f, 5) /\ ChangeBelow(h, f, -15) -> "significant downward"
           [] ~ChangeAbove(h, f, 5) /\ ~ChangeBelow(h, f, -15) /\ ChangeBelow(h, f, -5)
                -> "modest downward"
           [] OTHER -> "stable"

\* C9: generate_insight takes the first matching branch of: change > 15 strong
\* upward, > 5 modest upward, < -15 significant downward, < -5 modest downward,
\* else stable (5, 15, -5, -15 themselves fall in the weaker branch); with
\* hist_avg undefined or zero, strong upward when fcst_avg > 0 and stable otherwise.
C9_BranchByThresholds ==
    fout.branch # "not run" => fout.branch = ExpectedBranch(fin.hist, fin.fcst)

\* an increase of exactly 15 percent has been classified, as modest upward
C9_ExactlyFifteenPercent ==
    /\ fin.hist = Frac(20, 7) /\ fin.fcst = Frac(23, 7)
    /\ fout.branch = "modest upward"

(***************************************************************************)
(* get_historical_analysis applied to stored datasets                      *)
(***************************************************************************)
\* rows a dataset holds besides the fixed ones
MaxFreeRows == 2

FreeRows == {Row(d, p, u, 3) : d \in {1, 2}, p \in {"A", "B"}, u \in {0, 2}}

FreeSeqs == UNION {[1..n -> FreeRows] : n \in 0..MaxFreeRows}

\* five products, not in the order of their ids, two pairs with equal totals
FixedRows == <<Row(3, "G", 2, 1), Row(1, "F", 2, 2), Row(3, "E", 1, 5),
               Row(2, "D", 3, 1), Row(1, "C", 1, 4)>>

AnalysisDatasets ==
    {Table(required_columns, free) : free \in FreeSeqs}
    \cup {Table(required_columns, free \o FixedRows) : free \in FreeSeqs}
    \cup {Table(required_columns, FixedRows \o free) : free \in FreeSeqs}

AnalysisInit ==
    /\ StoreIdle
    /\ fin \in [file : {NoFile} \cup {File(d, {}) : d \in AnalysisDatasets}]
    /\ fout = [analysis |-> NoResp]

\* GET /analysis/ served alone on the stored file
RunAnalysis ==
    /\ fout.analysis = NoResp
    /\ fout' = [analysis |-> ServeAlone("analysis", fin.file, "")]
    /\ UNCHANGED <<storeVars, fin>>

AnalysisSpec == AnalysisInit /\ [][RunAnalysis]_vars

RECURSIVE TotalOver(_, _)
\* the sum of val[i] over the indices i in S
TotalOver(S, val) ==
    IF S = {} THEN 0
    ELSE LET i == CHOOSE i \in S : TRUE
         IN  val[i] + TotalOver(S \ {i}, val)

Min(a, b) == IF a <= b THEN a ELSE b

FirstIndex(rows, p) ==
    CHOOSE i \in 1..Len(rows) :
        rows[i].product_id = p /\ \A j \in 1..(i - 1) : rows[j].product_id # p

UnitsTotal(rows, p) ==
    TotalOver({i \in 1..Len(rows) : rows[i].product_id = p},
              [i \in 1..Len(rows) |-> rows[i].units_sold])

\* revenue_over_time: one entry per distinct date, ascending, each the sum of
\* units_sold * price over the records of its date
RevenueAsClaimed(rows, rev) ==
    /\ Len(rev) = Cardinality({rows[i].date : i \in 1..Len(rows)})
    /\ \A k \in 1..Len(rev) : \E i \in 1..Len(rows) : rows[i].date = rev[k].date
    /\ \A k, l \in 1..Len(rev) : k < l => rev[k].date < rev[l].date
    /\ \A k \in 1..Len(rev) :
         rev[k].revenue =
            TotalOver({i \in 1..Len(rows) : rows[i].date = rev[k].date},
                      [i \in 1..Len(rows) |-> rows[i].units_sold * rows[i].price])

\* top_products: MIN(5, number of products) entries with the products' summed
\* units_sold, descending, no omitted product above a listed one
TopAsClaimed(rows, top) ==
    LET products == {rows[i].product_id : i \in 1..Len(rows)}
        listed   == {top[k].product_id : k \in 1..Len(top)}
    IN  /\ Len(top) = Min(5, Cardinality(products))
        /\ listed \subseteq products
        /\ Cardinality(listed) = Len(top)
        /\ \A k \in 1..Len(top) : top[k].units_sold = UnitsTotal(rows, top[k].product_id)
        /\ \A k, l \in 1..Len(top) : k < l => top[k].units_sold >= top[l].units_sold
        /\ \A p \in products \ listed :
             \A k \in 1..Len(top) : UnitsTotal(rows, p) <= top[k].units_sold

ExtraRows == 1
\* ways the units_sold values vary with the row
MaxVariant == 1

RowCounts == {0, 1, 29, 30, 30 + ExtraRows}

Layouts == {"ascending", "descending", "gaps", "repeated", "shuffled"}

\* the date of the i-th of n rows
DateAt(layout, i, n) ==
    CASE layout = "ascending"  -> i
      [] layout = "descending" -> n + 1 - i
      [] layout = "gaps"       -> 3 * i
      [] layout = "repeated"   -> (i + 1) \div 2
      [] layout = "shuffled"   -> ((7 * i) % n) + 1

UnitsAt(i, v) == ((v + 2) * i + v) % 9

\* a dataset: k rows of product B, then n rows of product id
Generated(n, layout, v, k, id) ==
    Table(required_columns,
          [j \in 1..k |-> Row(j, "B", 4, 2)]
          \o [i \in 1..n |-> Row(DateAt(layout, i, n), id, UnitsAt(i, v), 2)])

ForecastDatasets ==
    {Generated(n, layout, v, k, id) :
        n \in RowCounts, layout \in Layouts, v \in 0..MaxVariant, k \in {0, 2},
        id \in {"A", "7"}}

PipeInit ==
    /\ StoreIdle
    /\ fin \in [file : {NoFile} \cup {File(d, {}) : d \in ForecastDatasets},
                product_id : {"A", "B", "7"}]
    /\ fout = [forecast |-> NoResp, forecast_fit |-> NotInvoked,
               export |-> NoResp, export_fit |-> NotInvoked]

FitOf(file, fit) == IF file.exists THEN fit ELSE NotInvoked

\* GET /forecast/{product_id} served alone on the stored file
RunForecast ==
    /\ fout.forecast = NoResp
    /\ fout' = [fout EXCEPT
                  !.forecast = ServeAlone("forecast", fin.file, fin.product_id),
                  !.forecast_fit =
                      FitOf(fin.file, ForecastFitInput(fin.file.data, fin.product_id))]
    /\ UNCHANGED <<storeVars, fin>>

\* GET /export/forecast/ served alone on the stored file
RunExport ==
    /\ fout.export = NoResp
    /\ fout' = [fout EXCEPT
                  !.export = ServeAlone("export", fin.file, fin.product_id),
                  !.export_fit =
                      FitOf(fin.file, ExportFitInput(fin.file.data, fin.product_id))]
    /\ UNCHANGED <<storeVars, fin>>

PipeNext == RunForecast \/ RunExport

PipeSpec == PipeInit /\ [][PipeNext]_vars

\* number of rows of the stored dataset with the asked product_id
Matching == 
    Cardinality({i \in 1..Len(fin.file.data.rows) :
                    fin.file.data.rows[i].product_id = fin.product_id})

\* the outcome the claim names for the stored file and the asked product
OutcomeAsClaimed(r, fit) ==
    IF ~fin.file.exists THEN r.code = 404 /\ r.detail = "File not found" /\ fit = NotInvoked
    ELSE IF Matching = 0 THEN r.code = 404 /\ r.detail = "Product ID not found" /\ fit = NotInvoked
    ELSE IF Matching < 30 THEN r.code = 400 /\ fit = NotInvoked
    ELSE r.code = 200 /\ fit # NotInvoked /\ Len(fit) = Matching

\* C5: both endpoints decide in the same order: 404 without a file, else 404
\* without a row of the product, else 400 below 30 matching rows, else the
\* forecasting function is invoked; it is never invoked on fewer than 30 rows.
C5_OutcomeOrder ==
    /\ fout.forecast # NoResp => OutcomeAsClaimed(fout.forecast, fout.forecast_fit)
    /\ fout.export # NoResp => OutcomeAsClaimed(fout.export, fout.export_fit)
    /\ (fout.forecast # NoResp /\ fout.export # NoResp)
         => /\ fout.forecast.code = fout.export.code
            /\ (fout.forecast.code = 404 => fout.forecast.detail = fout.export.detail)
    /\ fout.forecast_fit # NotInvoked => Len(fout.forecast_fit) >= 30
    /\ fout.export_fit # NotInvoked => Len(fout.export_fit) >= 30

\* the same, for the datasets whose product_id column is read as text
C5_OutcomeOrderOfTextIds ==
    ~IntColumn(fin.file.data.rows) => C5_OutcomeOrder

\* a row of the exported CSV, parsed again
Reparsed(r) ==
    [ds |-> to_datetime(r.date), yhat |-> r.predicted_sales,
     yhat_lower |-> r.predicted_sales_lower_bound,
     yhat_upper |-> r.predicted_sales_upper_bound]

ReparsedRows(csv) == [i \in 1..Len(csv) |-> Reparsed(csv[i])]

BothSucceeded == fout.forecast.code = 200 /\ fout.export.code = 200

HistoryDays == {r.date : r \in Range(ProductHistory(fin.file.data.rows, fin.product_id))}

FirstDay == CHOOSE d \in HistoryDays : \A e \in HistoryDays : d <= e
LastDay  == CHOOSE d \in HistoryDays : \A e \in HistoryDays : d >= e

\* the exported rows agree with get_forecast: its forecast of the history it
\* returns, and its forecast_data in the trailing 30 rows
ExportAgrees ==
    LET csv  == ReparsedRows(fout.export.body)
        hist == fout.forecast.body.historical_data
    IN  /\ csv = predict(hist, make_future_dataframe(hist, 30))
        /\ TailN(csv, 30) = fout.forecast.body.forecast_data
        /\ Len(fout.forecast.body.forecast_data) = 30

\* C6 as claimed: the export agrees with get_forecast and has one row for every
\* date from the first historical date through 30 days past the last.
C6_RowPerCalendarDay ==
    BothSucceeded =>
        LET csv == ReparsedRows(fout.export.body)
        IN  /\ ExportAgrees
            /\ Len(csv) = (LastDay - FirstDay + 1) + 30
            /\ \A i \in 1..Len(csv) : csv[i].ds = to_datetime(FirstDay + i - 1)

\* C6 (amended): the export agrees with get_forecast and has one row for every
\* distinct historical date, ascending, then one for each of the 30 days after
\* the last historical date.
C6_RowPerHistoricalDate ==
    BothSucceeded =>
        LET csv  == ReparsedRows(fout.export.body)
            days == SortedSeq(HistoryDays)
        IN  /\ ExportAgrees
            /\ Len(csv) = Len(days) + 30
            /\ \A i \in 1..Len(days) : csv[i].ds = to_datetime(days[i])
            /\ \A i \in 1..30 : csv[Len(days) + i].ds = to_datetime(LastDay + i)

\* both endpoints have succeeded on a history whose dates leave days out
C6_HistoryWithGaps ==
    /\ BothSucceeded
    /\ Cardinality(HistoryDays) < LastDay - FirstDay + 1
    /\ Len(fout.export.body) = Cardinality(HistoryDays) + 30

Ascending(fit) == \A i, j \in 1..Len(fit) : i < j => fit[i].ds.day <= fit[j].ds.day

\* the last 7 rows are rows of the 7 most recent dates
LastSevenMostRecent(fit) ==
    \A i \in 1..Len(fit) : \A j \in (Len(fit) - 6)..Len(fit) :
        i < Len(fit) - 6 => fit[i].ds.day <= fit[j].ds.day

\* C8: for a product with at least 30 rows, whatever the order of the rows in
\* the file, the (date, units_sold) sequence both endpoints hand to the
\* forecasting function is ordered by date ascending, so the last 7 rows
\* generate_insight averages are those of the 7 most recent dates.
C8_HistoryAscending ==
    /\ fout.forecast_fit # NotInvoked
         => /\ Ascending(fout.forecast_fit)
            /\ LastSevenMostRecent(fout.forecast_fit)
            /\ fout.forecast.body.historical_data = fout.forecast_fit
    /\ fout.export_fit # NotInvoked => Ascending(fout.export_fit)

====
